---- MODULE Spec2Model ----
(***************************************************************************)
(* Model of src/js/app.js (class MapApp): the pan / zoom viewport, the     *)
(* jump-to-marker centring, the category filter, the tooltip and the       *)
(* overlay swipe.                                                          *)
(*                                                                         *)
(* Numbers.  JavaScript Numbers are modelled as exact rationals <<n, d>>   *)
(* (d > 0, lowest terms), so 1.1 is 11/10 and 0.8 is 4/5.  Rounding of     *)
(* IEEE doubles is not modelled.                                           *)
(*                                                                         *)
(* Geometry.  The style sheet and index.html are not part of the sources.  *)
(* The model takes the convention jumpToMarker's own formula relies on     *)
(* (app.js 268-271): a content point c of the map container is shown at    *)
(* wrapper pixel translate + scale * c, so the container's bounding box    *)
(* starts at wrapper.left + translateX.  The wrapper sits at the           *)
(* top-left corner of the page (left = top = 0), which is what makes a     *)
(* mouse event with clientX = 0 on the map possible.                       *)
(*                                                                         *)
(* app.js 414 and 438 read `= var('--color-...')`.  `var` is a reserved    *)
(* word, so a JavaScript engine rejects the file as written.  The model    *)
(* reads both statements as the style assignment they stand for, which     *)
(* touches no modelled state.                                              *)
(***************************************************************************)
EXTENDS Integers, Sequences, FiniteSets, TLC

\* ---------------------------------------------------------------- bounds
\* Pan moves a behaviour may hold.
MaxPans == 1
\* Zoom steps that change the scale a behaviour may hold.
MaxZooms == 1
\* The same, in the behaviours that run the scale into its limits.
DeepZooms == 4

\* ------------------------------------------------------- rational numbers
Abs(n) == IF n < 0 THEN -n ELSE n

RECURSIVE GCD(_, _)
GCD(a, b) == IF b = 0 THEN a ELSE GCD(b, a % b)

\* n / d in lowest terms with a positive denominator.
Rat(n, d) ==
    LET s == IF d < 0 THEN -1 ELSE 1
        g == GCD(Abs(n), Abs(d))
    IN  <<(s * n) \div g, (s * d) \div g>>

R(n) == <<n, 1>>

\* Sums go through the least common denominator and products cancel
\* crosswise first, which keeps the intermediate integers small.
LCM(a, b) == (a \div GCD(a, b)) * b

RAdd(a, b) ==
    LET l == LCM(a[2], b[2])
    IN  Rat(a[1] * (l \div a[2]) + b[1] * (l \div b[2]), l)
RNeg(a) == <<-a[1], a[2]>>
RSub(a, b) == RAdd(a, RNeg(b))
RMul(a, b) ==
    LET g == GCD(Abs(a[1]), b[2])
        h == GCD(Abs(b[1]), a[2])
    IN  Rat((a[1] \div g) * (b[1] \div h), (a[2] \div h) * (b[2] \div g))
RDiv(a, b) == RMul(a, IF b[1] < 0 THEN <<-b[2], -b[1]>> ELSE <<b[2], b[1]>>)

\* n1/d1 <= n2/d2 (d1, d2 > 0), by comparing the integer parts and then the
\* inverted remainders: no product is formed.
RECURSIVE FracLeq(_, _, _, _)
FracLeq(n1, d1, n2, d2) ==
    LET q1 == n1 \div d1
        q2 == n2 \div d2
        r1 == n1 % d1
        r2 == n2 % d2
    IN  IF q1 # q2 THEN q1 < q2
        ELSE IF r1 = 0 THEN TRUE
        ELSE IF r2 = 0 THEN FALSE
        ELSE FracLeq(d2, r2, d1, r1)

RLeq(a, b) == FracLeq(a[1], a[2], b[1], b[2])
RLess(a, b) == ~RLeq(b, a)
RMin(a, b) == IF RLeq(a, b) THEN a ELSE b
RMax(a, b) == IF RLeq(a, b) THEN b ELSE a

\* ------------------------------------------------------ program constants
MinScale == R(1)
MaxScale == R(4)
WheelIn == Rat(11, 10)
WheelOut == Rat(9, 10)
ButtonIn == Rat(5, 4)
ButtonOut == Rat(4, 5)
TargetScale == R(2)

\* --------------------------------------------------------- environment
\* Sizes of #map-wrapper (clientWidth x clientHeight; no border, so the
\* bounding box has the same width and height).
WrapperSizes == {<<1000, 800>>, <<640, 480>>}

\* Pointer positions (clientX, clientY) on the map, inside every wrapper.
MapPoints == {<<0, 300>>, <<400, 0>>, <<600, 450>>}
\* Pointer positions anywhere in the document.
DocPoints == MapPoints \cup {<<1200, 450>>}
\* Pointer positions of wheel events over #map-wrapper.
WheelPoints == {<<0, 300>>, <<600, 450>>}

EventKinds == {"mouse", "touch"}

\* What data/markers_data.json may hold.
SampleData ==
    << [nom |-> "Ironforge", categorie |-> "Capitals", top |-> 50, left |-> 50,
        position_approx |-> "Dun Morogh"],
       [nom |-> "Stormwind", categorie |-> "Capitals", top |-> 70, left |-> 45,
        position_approx |-> "Elwynn Forest"],
       [nom |-> "Uldaman", categorie |-> "Dungeons", top |-> 40, left |-> 90,
        position_approx |-> "near the Ironband Excavation"] >>

DataSets == {SampleData}

\* ---------------------------------------------------------------- strings
\* A JavaScript string is the sequence of its characters.  Chars spells out
\* the strings of the marker records.
Chars(str) ==
    CASE str = "Ironforge" ->
        <<"I", "r", "o", "n", "f", "o", "r", "g", "e">>
      [] str = "Stormwind" ->
        <<"S", "t", "o", "r", "m", "w", "i", "n", "d">>
      [] str = "Uldaman" ->
        <<"U", "l", "d", "a", "m", "a", "n">>
      [] str = "Dun Morogh" ->
        <<"D", "u", "n", " ", "M", "o", "r", "o", "g", "h">>
      [] str = "Elwynn Forest" ->
        <<"E", "l", "w", "y", "n", "n", " ", "F", "o", "r", "e", "s",
          "t">>
      [] str = "near the Ironband Excavation" ->
        <<"n", "e", "a", "r", " ", "t", "h", "e", " ", "I", "r", "o",
          "n", "b", "a", "n", "d", " ", "E", "x", "c", "a", "v", "a",
          "t", "i", "o", "n">>

\* What the user may have typed into #search-input.
SearchValues ==
    { <<>>,
      <<"i">>,
      <<" ", "a", " ">>,
      <<"i", "r", "o", "n">>,
      <<"I", "R", "O", "N", " ">>,
      <<"o", "r">>,
      <<"d", "a">>,
      <<"z", "z">> }

UpperCase == <<"D", "E", "F", "I", "M", "N", "O", "R", "S", "U">>
LowerCase == <<"d", "e", "f", "i", "m", "n", "o", "r", "s", "u">>

\* String.prototype.toLowerCase
ToLowerCase(str) ==
    [i \in DOMAIN str |->
        IF \E k \in DOMAIN UpperCase : UpperCase[k] = str[i]
        THEN LowerCase[CHOOSE k \in DOMAIN UpperCase : UpperCase[k] = str[i]]
        ELSE str[i]]

\* String.prototype.trim
RECURSIVE Trim(_)
Trim(str) ==
    IF str = <<>> THEN str
    ELSE IF Head(str) = " " THEN Trim(Tail(str))
    ELSE IF str[Len(str)] = " " THEN Trim(SubSeq(str, 1, Len(str) - 1))
    ELSE str

\* String.prototype.includes
Includes(str, q) ==
    \E i \in 0..(Len(str) - Len(q)) : SubSeq(str, i + 1, i + Len(q)) = q

VARIABLES
    pc,            \* "loading" while init() awaits the fetch, then "ready"
    markersData,   \* this.markersData
    wrapper,       \* <<clientWidth, clientHeight>> of #map-wrapper
    scale,         \* this.scale
    translateX,    \* this.translateX
    translateY,    \* this.translateY
    isDragging,    \* this.isDragging
    lastX,         \* this.lastX
    lastY,         \* this.lastY
    grabbing,      \* 'grabbing' class on #map-container
    activeMarker,  \* this.activeMarker: index into markersData, 0 for null
    rendered,      \* children of #markers-container: <<[idx, active]>>
    filterButtons, \* data-filter of the buttons of #filter-controls
    activeFilter,  \* indexes of the buttons carrying 'active-filter'
    tooltip,       \* [hidden]: the 'hidden' class of #tooltip
    searchValue,   \* value of #search-input
    searchResults, \* children of #search-results: indexes into markersData
    isSwiping,     \* isSwiping of setupSwipe
    swipePercent,  \* <<>> until onSwipe sets the clip, then <<percent>>
    budget,        \* zoom, pan: events of the class still to be explored;
                   \* swipe: whether the separator is within reach
    ev             \* the last event handled and what it did

vars == <<pc, markersData, wrapper, scale, translateX, translateY, isDragging,
          lastX, lastY, grabbing, activeMarker, rendered, filterButtons,
          activeFilter, tooltip, searchValue, searchResults, isSwiping,
          swipePercent, budget, ev>>

viewVars == <<scale, translateX, translateY>>
panVars == <<isDragging, lastX, lastY, grabbing>>
markerVars == <<activeMarker, rendered, tooltip>>
filterVars == <<filterButtons, activeFilter>>
swipeVars == <<isSwiping, swipePercent>>
searchVars == <<searchValue, searchResults>>
fixedVars == <<pc, markersData, wrapper>>

\* op: the event; threw: a handler of it raised; marker: the record a jump
\* or marker click was about; panned: handlePanMove moved the map;
\* wasDragging / wasSwiping: the gesture flags a release found; pivot: the
\* pivot of a zoom; at: the pointer position of a move that found a gesture
\* going on; origin: the pointer position of a pointer-down.
NoEvent == [op |-> "none", threw |-> FALSE, marker |-> 0, panned |-> FALSE,
            wasDragging |-> FALSE, wasSwiping |-> FALSE, pivot |-> <<>>,
            at |-> <<>>, origin |-> <<>>]

Event(op, threw) == [NoEvent EXCEPT !.op = op, !.threw = threw]

\* ------------------------------------------------------ pointer events
\* An input event of kind "mouse" carries clientX / clientY and no touches;
\* one of kind "touch" carries touches[0] and no clientX / clientY.
\* `e.clientX || e.touches[0].clientX`: a mouse event whose coordinate is 0
\* falls through to e.touches, which a mouse event does not have.
CoordThrows(kind, c) == kind = "mouse" /\ c = 0

\* ------------------------------------------------------- viewport maths
\* Mutant: the upper limit is forgotten.
ClampScaleNoMax(s) == RMax(MinScale, s)

\* Math.max(1.0, Math.min(4.0, s))
ClampScale(s) == RMax(MinScale, RMin(MaxScale, s))

\* this.translateX -= pivot * (newScale - this.scale) / newScale
\* (the quotient is formed first: the same number, with smaller integers on
\* the way).
ZoomTranslate(t, pivot, oldScale, newScale) ==
    RSub(t, RMul(pivot, RDiv(RSub(newScale, oldScale), newScale)))

\* Mutant: an elastic clamp, which comes back half of the way.
ClampAxisElastic(t, s, size) ==
    LET max == RSub(RMul(R(size), s), R(size))
        target == IF RLess(R(1), s) THEN RMax(RMin(t, R(0)), RNeg(max))
                  ELSE R(0)
    IN  RMul(RAdd(t, target), Rat(1, 2))

\* clampTranslations, one axis: size is the wrapper's clientWidth or
\* clientHeight.
ClampAxis(t, s, size) ==
    LET max == RSub(RMul(R(size), s), R(size))
    IN  IF RLess(R(1), s)
        THEN RMax(RMin(t, R(0)), RNeg(max))
        ELSE R(0)

clampTranslations(s, tx, ty, w) ==
    <<ClampAxis(tx, s, w[1]), ClampAxis(ty, s, w[2])>>

\* Mutant: at a scale limit the translation still moves towards the pivot,
\* by the scale the factor asked for.
AtLimitAdjusts(s, tx, ty, w, factor, px, py) ==
    LET asked == RMul(s, factor)
        rawX == ZoomTranslate(tx, px, s, asked)
        rawY == ZoomTranslate(ty, py, s, asked)
        c == clampTranslations(s, rawX, rawY, w)
    IN  [scale |-> s, tx |-> c[1], ty |-> c[2], raw |-> <<rawX, rawY>>]

\* `if (newScale === this.scale) return;`
AtLimit(s, tx, ty, w, factor, px, py) ==
    [scale |-> s, tx |-> tx, ty |-> ty, raw |-> <<tx, ty>>]

\* The zoom step shared by handleZoom and zoom: the new viewport and the
\* translation before the clamp.
ZoomStep(s, tx, ty, w, factor, px, py) ==
    LET newScale == ClampScale(RMul(s, factor))
        rawX == ZoomTranslate(tx, px, s, newScale)
        rawY == ZoomTranslate(ty, py, s, newScale)
        c == clampTranslations(newScale, rawX, rawY, w)
    IN  IF newScale = s
        THEN AtLimit(s, tx, ty, w, factor, px, py)
        ELSE [scale |-> newScale, tx |-> c[1], ty |-> c[2],
              raw |-> <<rawX, rawY>>]

\* mapContainer.getBoundingClientRect(): left and top of the transformed
\* container (wrapper at the page origin).
ContainerRect(tx, ty) == [left |-> tx, top |-> ty]

\* Mutant: the marker position is not scaled by the target scale.
JumpTranslateUnscaled(percent, size) ==
    RSub(Rat(size, 2), RMul(Rat(percent, 100), R(size)))

\* jumpToMarker's translation on one axis: viewCenter - markerNorm * target.
JumpTranslate(percent, size) ==
    LET viewCenter == Rat(size, 2)
        markerNorm == RMul(Rat(percent, 100), R(size))
    IN  RSub(viewCenter, RMul(markerNorm, TargetScale))

\* ------------------------------------------------------------- markers
\* The categories in the order Array.prototype.sort gives them.
CategoryOrder == <<"Capitals", "Dungeons">>

Categories(data) == {data[i].categorie : i \in DOMAIN data}

\* Filter buttons without the 'Tout' button.
CreateFilterButtonsNoAll(data) ==
    SelectSeq(CategoryOrder, LAMBDA c : c \in Categories(data))

\* createFilterButtons: 'all', then the distinct categories, sorted.
CreateFilterButtons(data) ==
    <<"all">> \o SelectSeq(CategoryOrder, LAMBDA c : c \in Categories(data))

RECURSIVE RenderFrom(_, _, _, _)
RenderFrom(data, active, filterCategory, i) ==
    IF i > Len(data) THEN <<>>
    ELSE LET isVisible == filterCategory = "all"
                          \/ data[i].categorie = filterCategory
             isActive == active # 0 /\ data[active].nom = data[i].nom
         IN  (IF isVisible THEN <<[idx |-> i, active |-> isActive]>> ELSE <<>>)
             \o RenderFrom(data, active, filterCategory, i + 1)

\* Mutant: the markers are rendered without the 'active' class.
renderMarkersUnmarked(data, active, filterCategory) ==
    RenderFrom(data, 0, filterCategory, 1)

\* renderMarkers(filterCategory): the new children of #markers-container.
renderMarkers(data, active, filterCategory) ==
    RenderFrom(data, active, filterCategory, 1)

\* document.querySelector(`[data-name="..."]`): position of the first
\* rendered element with that name, 0 for null.
QueryByName(data, rend, nom) ==
    LET hits == {i \in DOMAIN rend : data[rend[i].idx].nom = nom}
    IN  IF hits = {} THEN 0
        ELSE CHOOSE i \in hits : \A j \in hits : i <= j

\* Mutant: the reset forgets the selected filter.
getActiveFilterAll(buttons, active) == "all"

\* getActiveFilter(): data-filter of the first button with 'active-filter'.
getActiveFilter(buttons, active) ==
    IF active = {} THEN "all"
    ELSE buttons[CHOOSE i \in active : \A j \in active : i <= j]

\* ---------------------------------------------------------------- swipe
\* onSwipe's percent for a pointer at clientX (wrapper left edge at 0).
SwipePercent(clientX, width) ==
    LET newX == RMax(R(0), RMin(R(width), R(clientX)))
    IN  RMul(RDiv(newX, R(width)), R(100))

\* ------------------------------------------------------------- handlers
\* hideTooltip()
hideTooltip(t) == [t EXCEPT !.hidden = TRUE]

\* showTooltip(data, markerElement), markerElement not null.
showTooltip(t, data) == [t EXCEPT !.hidden = FALSE]

\* handlePanStart(e), e.target inside #map-container: the new
\* isDragging / lastX / lastY / grabbing, and whether the handler raised.
handlePanStart(kind, p) ==
    IF CoordThrows(kind, p[1])
    THEN [isDragging |-> TRUE, lastX |-> lastX, lastY |-> lastY,
          grabbing |-> grabbing, threw |-> TRUE]
    ELSE IF CoordThrows(kind, p[2])
    THEN [isDragging |-> TRUE, lastX |-> p[1], lastY |-> lastY,
          grabbing |-> grabbing, threw |-> TRUE]
    ELSE [isDragging |-> TRUE, lastX |-> p[1], lastY |-> p[2],
          grabbing |-> TRUE, threw |-> FALSE]

\* handlePanMove(e): the new translation, last position and tooltip.
handlePanMove(kind, p) ==
    IF ~isDragging
    THEN [panned |-> FALSE, threw |-> FALSE, tx |-> translateX,
          ty |-> translateY, lastX |-> lastX, lastY |-> lastY,
          tooltip |-> tooltip]
    ELSE IF CoordThrows(kind, p[1]) \/ CoordThrows(kind, p[2])
    THEN [panned |-> FALSE, threw |-> TRUE, tx |-> translateX,
          ty |-> translateY, lastX |-> lastX, lastY |-> lastY,
          tooltip |-> tooltip]
    ELSE [panned |-> TRUE, threw |-> FALSE,
          tx |-> RAdd(translateX, R(p[1] - lastX)),
          ty |-> RAdd(translateY, R(p[2] - lastY)),
          lastX |-> p[1], lastY |-> p[2],
          tooltip |-> hideTooltip(tooltip)]

\* onSwipe(e): the new swipe percent.
onSwipe(kind, p) ==
    IF ~isSwiping
    THEN [threw |-> FALSE, percent |-> swipePercent]
    ELSE IF CoordThrows(kind, p[1])
    THEN [threw |-> TRUE, percent |-> swipePercent]
    ELSE [threw |-> FALSE, percent |-> <<SwipePercent(p[1], wrapper[1])>>]

\* Mutant: the release leaves the drag as it is.
handlePanEndStuck == isDragging

\* handlePanEnd(): the new isDragging.
handlePanEnd == FALSE

\* endSwipe(): the new isSwiping.
endSwipe == FALSE

\* --------------------------------------------------------------- actions
\* The state the constructor leaves, init() waiting for the fetch.
Constructed(b, sizes) ==
    /\ pc = "loading"
    /\ markersData = <<>>
    /\ wrapper \in sizes
    /\ scale = R(1)
    /\ translateX = R(0)
    /\ translateY = R(0)
    /\ isDragging = FALSE
    /\ lastX = 0
    /\ lastY = 0
    /\ grabbing = FALSE
    /\ activeMarker = 0
    /\ rendered = <<>>
    /\ filterButtons = <<>>
    /\ activeFilter = {}
    /\ tooltip = [hidden |-> TRUE]
    /\ searchValue = <<>>
    /\ searchResults = <<>>
    /\ isSwiping = FALSE
    /\ swipePercent = <<>>
    /\ budget = b
    /\ ev = NoEvent

Init ==
    Constructed([zoom |-> MaxZooms, pan |-> MaxPans, swipe |-> TRUE],
                {<<1000, 800>>})

InitZoom ==
    Constructed([zoom |-> DeepZooms, pan |-> 0, swipe |-> FALSE],
                {<<1000, 800>>})

InitMarkers ==
    Constructed([zoom |-> MaxZooms, pan |-> 0, swipe |-> FALSE], WrapperSizes)

Spend(class) == [budget EXCEPT ![class] = @ - 1]

\* init(): the fetch settles (with the data, or failing and leaving []),
\* then setupEventListeners, renderMap and createFilterButtons run.
LoadMarkersData ==
    /\ pc = "loading"
    /\ \E data \in DataSets \cup {<<>>} :
        /\ markersData' = data
        /\ filterButtons' = CreateFilterButtons(data)
    /\ activeFilter' = {1}
    /\ pc' = "ready"
    /\ ev' = Event("init", FALSE)
    /\ UNCHANGED <<wrapper, viewVars, panVars, markerVars, swipeVars, searchVars,
                   budget>>

\* mousedown / touchstart inside #map-container, not on the separator.
PanStart ==
    /\ pc = "ready"
    /\ \E kind \in EventKinds, p \in MapPoints :
        LET r == handlePanStart(kind, p)
        IN  /\ isDragging' = r.isDragging
            /\ lastX' = r.lastX
            /\ lastY' = r.lastY
            /\ grabbing' = r.grabbing
            /\ ev' = [Event("down", r.threw) EXCEPT
                        !.origin = p]
    /\ UNCHANGED <<fixedVars, viewVars, markerVars, filterVars, swipeVars,
                   searchVars, budget>>

\* mousedown / touchstart on #overlay-separator: handlePanStart returns at
\* once, startSwipe runs.
SwipeStart ==
    /\ pc = "ready"
    /\ budget.swipe
    /\ isSwiping' = TRUE
    /\ grabbing' = FALSE
    /\ ev' = Event("swipedown", FALSE)
    /\ UNCHANGED <<fixedVars, viewVars, isDragging, lastX, lastY, markerVars,
                   filterVars, swipePercent, searchVars, budget>>

\* mousemove / touchmove anywhere: handlePanMove, then onSwipe.
PointerMove ==
    /\ pc = "ready"
    /\ \E kind \in EventKinds, p \in DocPoints :
        LET m == handlePanMove(kind, p)
            w == onSwipe(kind, p)
        IN  /\ m.panned => budget.pan > 0
            /\ budget' = IF m.panned THEN Spend("pan") ELSE budget
            /\ translateX' = m.tx
            /\ translateY' = m.ty
            /\ lastX' = m.lastX
            /\ lastY' = m.lastY
            /\ tooltip' = m.tooltip
            /\ swipePercent' = w.percent
            /\ ev' = [Event("move", m.threw \/ w.threw) EXCEPT
                        !.panned = m.panned,
                        !.at = IF isDragging \/ isSwiping THEN p ELSE <<>>]
    /\ UNCHANGED <<fixedVars, scale, isDragging, grabbing, activeMarker,
                   rendered, filterVars, isSwiping, searchVars>>

\* mouseup / touchend anywhere: handlePanEnd, then endSwipe.
PointerUp ==
    /\ pc = "ready"
    /\ isDragging' = handlePanEnd
    /\ grabbing' = FALSE
    /\ isSwiping' = endSwipe
    /\ ev' = [Event("up", FALSE) EXCEPT !.wasDragging = isDragging,
                                        !.wasSwiping = isSwiping]
    /\ UNCHANGED <<fixedVars, viewVars, lastX, lastY, markerVars, filterVars,
                   swipePercent, searchVars, budget>>

\* A zoom by `factor` about the pivot (px, py).
ApplyZoom(op, factor, px, py) ==
    LET changes == ClampScale(RMul(scale, factor)) # scale
    IN  /\ changes => budget.zoom > 0
        /\ budget' = IF changes THEN Spend("zoom") ELSE budget
        /\ LET z == ZoomStep(scale, translateX, translateY, wrapper,
                             factor, px, py)
           IN  /\ scale' = z.scale
               /\ translateX' = z.tx
               /\ translateY' = z.ty
               /\ ev' = [Event(op, FALSE) EXCEPT !.pivot = <<px, py>>]
        /\ UNCHANGED <<fixedVars, panVars, markerVars, filterVars, swipeVars,
                       searchVars>>

\* handleZoom(e): wheel over #map-wrapper, pivot = cursor relative to the
\* container's bounding box.
handleZoom ==
    /\ pc = "ready"
    /\ \E p \in WheelPoints, zoomFactor \in {WheelIn, WheelOut} :
        LET rect == ContainerRect(translateX, translateY)
            cursorX == RSub(R(p[1]), rect.left)
            cursorY == RSub(R(p[2]), rect.top)
        IN  ApplyZoom("wheel", zoomFactor, cursorX, cursorY)

\* zoom(direction): the + / - buttons, pivot = centre of the wrapper.
zoom ==
    /\ pc = "ready"
    /\ \E factor \in {ButtonIn, ButtonOut} :
        LET centerX == Rat(wrapper[1], 2)
            centerY == Rat(wrapper[2], 2)
        IN  ApplyZoom("button", factor, centerX, centerY)

\* resetView()
resetView ==
    /\ pc = "ready"
    /\ scale' = R(1)
    /\ translateX' = R(0)
    /\ translateY' = R(0)
    /\ activeMarker' = 0
    /\ tooltip' = hideTooltip(tooltip)
    /\ rendered' = renderMarkers(markersData, 0,
                                 getActiveFilter(filterButtons, activeFilter))
    /\ ev' = Event("reset", FALSE)
    /\ UNCHANGED <<fixedVars, panVars, filterVars, swipeVars, searchVars,
                   budget>>

\* Mutant: the jump does not record its target.
JumpActiveNone(r) == 0

\* What jumpToMarker(markerData) leaves in activeMarker.
JumpActive(r) == r

\* Mutant: the jump renders under the filter that is selected.
JumpFilterSelected(data) == getActiveFilter(filterButtons, activeFilter)

\* The category jumpToMarker(markerData) renders the markers under.
JumpFilter(data) == data.categorie

\* jumpToMarker(markerData), markerData = markersData[r].
JumpTo(r) ==
    LET data == markersData[r]
        rend == renderMarkers(markersData, JumpActive(r), JumpFilter(data))
        el == QueryByName(markersData, rend, data.nom)
    IN  /\ activeMarker' = JumpActive(r)
        /\ rendered' = rend
        /\ IF el = 0
           THEN /\ ev' = [Event("jump", TRUE) EXCEPT !.marker = r]
                /\ UNCHANGED <<tooltip, viewVars, searchVars>>
           ELSE /\ tooltip' = showTooltip(tooltip, data)
                /\ scale' = TargetScale
                /\ translateX' = JumpTranslate(data.left, wrapper[1])
                /\ translateY' = JumpTranslate(data.top, wrapper[2])
                /\ searchValue' = <<>>
                /\ searchResults' = <<>>
                /\ ev' = [Event("jump", FALSE) EXCEPT !.marker = r]
        /\ UNCHANGED <<fixedVars, panVars, filterVars, swipeVars, budget>>

\* A jump to any record, the search that led to it left out: every record
\* is among the results of a search for its own name, and the jump clears
\* the search.
jumpToMarker ==
    /\ pc = "ready"
    /\ \E r \in DOMAIN markersData : JumpTo(r)

\* A search that looks at nom only.
SearchFilterNomOnly(data, query) ==
    SelectSeq([i \in DOMAIN data |-> i],
              LAMBDA i : Includes(ToLowerCase(Chars(data[i].nom)), query))

\* The filter of handleSearchInput: the records whose nom or
\* position_approx includes the query, in the order of markersData.
SearchFilter(data, query) ==
    SelectSeq([i \in DOMAIN data |-> i],
              LAMBDA i :
                  \/ Includes(ToLowerCase(Chars(data[i].nom)), query)
                  \/ Includes(ToLowerCase(Chars(data[i].position_approx)),
                              query))

\* A search without the length test.
SearchAnyLength(data, query) == SearchFilter(data, query)

\* The items handleSearchInput appends to the emptied #search-results.
SearchItems(data, query) ==
    IF Len(query) < 2 THEN <<>> ELSE SearchFilter(data, query)

\* handleSearchInput(): the 'input' event of #search-input, the field
\* holding `value`.
handleSearchInput ==
    /\ pc = "ready"
    /\ \E value \in SearchValues :
        LET query == Trim(ToLowerCase(value))
        IN  /\ searchValue' = value
            /\ searchResults' = SearchItems(markersData, query)
    /\ ev' = Event("search", FALSE)
    /\ UNCHANGED <<fixedVars, viewVars, panVars, markerVars, filterVars,
                   swipeVars, budget>>

\* click on an item of #search-results: jumpToMarker(marker).
SearchResultClick ==
    /\ pc = "ready"
    /\ \E i \in DOMAIN searchResults : JumpTo(searchResults[i])

\* handleFilterClick(clickedButton, category)
handleFilterClick ==
    /\ pc = "ready"
    /\ \E b \in DOMAIN filterButtons :
        /\ activeFilter' = {b}
        /\ rendered' = renderMarkers(markersData, 0, filterButtons[b])
    /\ activeMarker' = 0
    /\ tooltip' = hideTooltip(tooltip)
    /\ ev' = Event("filter", FALSE)
    /\ UNCHANGED <<fixedVars, viewVars, panVars, filterButtons, swipeVars,
                   searchVars, budget>>

\* click on a rendered marker: showTooltip(markerData, marker).
MarkerClick ==
    /\ pc = "ready"
    /\ \E i \in DOMAIN rendered :
        /\ tooltip' = showTooltip(tooltip, markersData[rendered[i].idx])
        /\ ev' = [Event("click", FALSE) EXCEPT !.marker = rendered[i].idx]
    /\ UNCHANGED <<fixedVars, viewVars, panVars, activeMarker, rendered,
                   filterVars, swipeVars, searchVars, budget>>

\* click on #tooltip-close: hideTooltip().
TooltipClose ==
    /\ pc = "ready"
    /\ tooltip' = hideTooltip(tooltip)
    /\ ev' = Event("close", FALSE)
    /\ UNCHANGED <<fixedVars, viewVars, panVars, activeMarker, rendered,
                   filterVars, swipeVars, searchVars, budget>>

\* Every event of the program.  TLC cannot exhaust Spec within useful
\* bounds; the properties are checked on the specifications below, each of
\* which keeps the events of one concern.
Next ==
    \/ LoadMarkersData
    \/ PanStart
    \/ SwipeStart
    \/ PointerMove
    \/ PointerUp
    \/ handleZoom
    \/ zoom
    \/ resetView
    \/ jumpToMarker
    \/ handleFilterClick
    \/ MarkerClick
    \/ TooltipClose
    \/ handleSearchInput
    \/ SearchResultClick

Spec == Init /\ [][Next]_vars

\* The scale and the zoom pivot: zoom steps, jump and reset.
NextZoom ==
    \/ LoadMarkersData
    \/ handleZoom
    \/ zoom
    \/ jumpToMarker
    \/ resetView

SpecZoom == InitZoom /\ [][NextZoom]_vars

\* The two gestures, pan and swipe, on the pointer events they share.
NextGesture ==
    \/ LoadMarkersData
    \/ PanStart
    \/ SwipeStart
    \/ PointerMove
    \/ PointerUp

SpecGesture == Init /\ [][NextGesture]_vars

\* The markers: jump, filter, marker click, reset, tooltip, button zoom.
NextMarkers ==
    \/ LoadMarkersData
    \/ jumpToMarker
    \/ handleFilterClick
    \/ MarkerClick
    \/ resetView
    \/ TooltipClose
    \/ zoom

SpecMarkers == InitMarkers /\ [][NextMarkers]_vars

\* The search: typing into the search field, clicking a result, and the
\* filter buttons that change what is rendered in between.
NextSearch ==
    \/ LoadMarkersData
    \/ handleSearchInput
    \/ SearchResultClick
    \/ handleFilterClick

SpecSearch == InitMarkers /\ [][NextSearch]_vars

\* What the README promises to keep working when the data cannot be loaded:
\* pan, zoom, reset and the overlay swipe.
NextRecovery ==
    \/ LoadMarkersData
    \/ PanStart
    \/ SwipeStart
    \/ PointerMove
    \/ PointerUp
    \/ zoom
    \/ resetView

\* A session that zooms, one that pans and one that swipes; each presses
\* and releases the map and resets the view as well.
InitRecovery ==
    \E b \in {[zoom |-> MaxZooms, pan |-> 0, swipe |-> FALSE],
              [zoom |-> 0, pan |-> MaxPans, swipe |-> FALSE],
              [zoom |-> 0, pan |-> 0, swipe |-> TRUE]} :
        Constructed(b, {<<1000, 800>>})

SpecRecovery == InitRecovery /\ [][NextRecovery]_vars

\* clampTranslations on its own, from any viewport the application can be
\* in: pans are never clamped, so any translation goes with any scale.
ClampScales == {R(1), Rat(11, 10), Rat(5, 4), R(2), Rat(25, 8), R(4)}
ClampOffsets == {-5000, -3000, -1000, -250, 0, 1, 400}

InitClamp ==
    /\ pc = "ready"
    /\ markersData = <<>>
    /\ wrapper \in WrapperSizes
    /\ scale \in ClampScales
    /\ translateX \in {R(t) : t \in ClampOffsets}
    /\ translateY \in {R(t) : t \in ClampOffsets}
    /\ isDragging = FALSE
    /\ lastX = 0
    /\ lastY = 0
    /\ grabbing = FALSE
    /\ activeMarker = 0
    /\ rendered = <<>>
    /\ filterButtons = <<"all">>
    /\ activeFilter = {1}
    /\ tooltip = [hidden |-> TRUE]
    /\ searchValue = <<>>
    /\ searchResults = <<>>
    /\ isSwiping = FALSE
    /\ swipePercent = <<>>
    /\ budget = [zoom |-> 0, pan |-> 0, swipe |-> FALSE]
    /\ ev = NoEvent

\* A call of clampTranslations().
ClampCall ==
    /\ pc = "ready"
    /\ LET c == clampTranslations(scale, translateX, translateY, wrapper)
       IN  /\ translateX' = c[1]
           /\ translateY' = c[2]
    /\ ev' = Event("clamp", FALSE)
    /\ UNCHANGED <<fixedVars, scale, panVars, markerVars, filterVars,
                   swipeVars, searchVars, budget>>

NextClamp == ClampCall

SpecClamp == InitClamp /\ [][NextClamp]_vars

\* ---------------------------------------------------------------- claims
Zero == R(0)

\* The translation keeps the scaled content over the whole wrapper.
InBounds ==
    /\ RLeq(RNeg(RSub(RMul(R(wrapper[1]), scale), R(wrapper[1]))), translateX)
    /\ RLeq(translateX, Zero)
    /\ RLeq(RNeg(RSub(RMul(R(wrapper[2]), scale), R(wrapper[2]))), translateY)
    /\ RLeq(translateY, Zero)

\* C1: in every reachable state, scale = 1.0 implies translation = (0,0).
C1_ScaleOneNoTranslation ==
    scale = R(1) => translateX = Zero /\ translateY = Zero

\* C2: right after every pan move and every wheel or button zoom step the
\* translation is clamped: inside the cover range when scale > 1, (0,0)
\* when scale = 1.
C2_ClampAfterPanAndZoom ==
    ((ev.op = "move" /\ ev.panned) \/ ev.op \in {"wheel", "button"}) =>
        IF scale = R(1) THEN translateX = Zero /\ translateY = Zero
        ELSE InBounds

\* C3: in every reachable state 1.0 <= scale <= 4.0.
C3_ScaleInRange == RLeq(R(1), scale) /\ RLeq(scale, R(4))

\* C3 witness: a zoom-in step ran into the upper limit.
C3_Witness == ev.op \in {"wheel", "button"} /\ scale = R(4)

\* Where the wrapper shows the pivot of a zoom: the wheel's pivot is
\* relative to the container's box, the buttons' pivot is a wrapper pixel.
PivotScreen(op, pivot, t) == IF op = "wheel" THEN RAdd(t, pivot) ELSE pivot

\* One axis of zoom-about-pivot: the content point c shown at the pivot
\* before the zoom (t + oldScale * c = screen) is shown there after the
\* translation update, before the clamp.
PivotFixed(op, pivot, t, oldScale, newScale) ==
    LET screen == PivotScreen(op, pivot, t)
        c == RDiv(RSub(screen, t), oldScale)
        t2 == ZoomTranslate(t, pivot, oldScale, newScale)
    IN  RAdd(t2, RMul(newScale, c)) = screen

\* C4: every wheel or button zoom that changes the scale keeps the content
\* point under the pivot at the same pixel (before clamping).
C4_ZoomAboutPivot ==
    [][(ev'.op \in {"wheel", "button"} /\ scale' # scale) =>
          /\ PivotFixed(ev'.op, ev'.pivot[1], translateX, scale, scale')
          /\ PivotFixed(ev'.op, ev'.pivot[2], translateY, scale, scale')]_vars

\* Where the content point at (left%, top%) is displayed, one axis.
Project(t, s, percent, size) ==
    RAdd(t, RMul(RMul(Rat(percent, 100), R(size)), s))

\* C5: after jumpToMarker the scale is 2.0 and the marker is projected onto
\* the centre of the wrapper; top = 50, left = 50 in 1000 x 800 gives
\* (500, 400).
C5_JumpCenters ==
    /\ ev.op = "jump" =>
        /\ ~ev.threw
        /\ scale = R(2)
        /\ Project(translateX, scale, markersData[ev.marker].left, wrapper[1])
             = Rat(wrapper[1], 2)
        /\ Project(translateY, scale, markersData[ev.marker].top, wrapper[2])
             = Rat(wrapper[2], 2)
    /\ Project(JumpTranslate(50, 1000), TargetScale, 50, 1000) = R(500)
    /\ Project(JumpTranslate(50, 800), TargetScale, 50, 800) = R(400)

\* C5 witness: a jump to the marker at top = 50, left = 50 in 1000 x 800.
C5_Witness ==
    /\ ev.op = "jump"
    /\ wrapper = <<1000, 800>>
    /\ markersData[ev.marker].left = 50
    /\ markersData[ev.marker].top = 50

\* The filter of the highlighted button, and the records it selects.
HighlightedFilter == filterButtons[CHOOSE b \in activeFilter : TRUE]

Matching(f) ==
    {i \in DOMAIN markersData : f = "all" \/ markersData[i].categorie = f}

RenderedSet(rend) == {rend[i].idx : i \in DOMAIN rend}

\* C6: resetView leaves scale 1.0, translation (0,0), no active marker, the
\* tooltip hidden and exactly the records of the highlighted filter
\* rendered; neither the reset nor a jump changes the highlighted filter.
C6_ResetKeepsFilter ==
    [][/\ ev'.op = "reset" =>
            /\ scale' = R(1)
            /\ translateX' = Zero
            /\ translateY' = Zero
            /\ activeMarker' = 0
            /\ tooltip'.hidden
            /\ Len(rendered') = Cardinality(RenderedSet(rendered'))
            /\ RenderedSet(rendered') = Matching(HighlightedFilter)
            /\ \A i \in DOMAIN rendered' : ~rendered'[i].active
       /\ ev'.op \in {"reset", "jump"} =>
            /\ activeFilter' = activeFilter
            /\ filterButtons' = filterButtons]_vars

\* C6 witness: a reset under the "Capitals" filter after a zoom.
C6_Witness ==
    /\ ev.op = "reset"
    /\ budget.zoom < MaxZooms
    /\ HighlightedFilter = "Capitals"
    /\ RenderedSet(rendered) = {1, 2}

\* C7: the pan machine is never Dragging while the swipe machine is
\* Swiping.
C7_PanSwipeExclusive == ~(isDragging /\ isSwiping)

\* C8: a release puts both machines in Idle, they stay Idle until the next
\* down, and a move while both are Idle changes neither the translation nor
\* the swipe percent.
C8_ReleaseEndsGestures ==
    [][/\ ev'.op = "up" => ~isDragging' /\ ~isSwiping'
       /\ (~isDragging /\ ~isSwiping /\ ev'.op \notin {"down", "swipedown"})
            => ~isDragging' /\ ~isSwiping'
       /\ (~isDragging /\ ~isSwiping /\ ev'.op = "move")
            => UNCHANGED <<translateX, translateY, swipePercent>>]_vars

\* C8 witness: a release that found both gestures active, after a pan and a
\* swipe had moved the map and the separator.
C8_Witness ==
    /\ ev.op = "up"
    /\ ev.wasDragging
    /\ ev.wasSwiping
    /\ translateX # Zero
    /\ swipePercent # <<>>

\* C9: no pointer-down, pointer-move, wheel or zoom-button handler raises.
C9_PanZoomNeverFail ==
    ev.op \in {"down", "move", "wheel", "button"} => ~ev.threw

Found(q) ==
    {i \in DOMAIN markersData :
        \/ Includes(ToLowerCase(Chars(markersData[i].nom)), ToLowerCase(q))
        \/ Includes(ToLowerCase(Chars(markersData[i].position_approx)),
                    ToLowerCase(q))}

\* results lists exactly the records of S, each once, in load order.
ListsInLoadOrder(results, S) ==
    /\ {results[k] : k \in DOMAIN results} = S
    /\ \A k \in DOMAIN results : \A m \in DOMAIN results :
          k < m => results[k] < results[m]

\* C11, as stated: for every text of length >= 2 in the search field, the
\* results of handleSearchInput are exactly the loaded records whose name
\* or position label contains that text, case-insensitively, each once and
\* in load order.
C11_SearchFindsTypedText ==
    (ev.op = "search" /\ Len(searchValue) >= 2)
        => ListsInLoadOrder(searchResults, Found(searchValue))

\* C11, amended: the query is the typed text with the whitespace at its
\* ends trimmed; for every query of length >= 2 the results are exactly the
\* loaded records whose name or position label contains the query,
\* case-insensitively, each once and in load order.
C11_SearchFindsTrimmedQuery ==
    (ev.op = "search" /\ Len(Trim(searchValue)) >= 2)
        => ListsInLoadOrder(searchResults, Found(Trim(searchValue)))

\* "IRON " finds Ironforge by its name and Uldaman by its position label,
\* and not Stormwind between them.
C11_Witness ==
    /\ ev.op = "search"
    /\ searchValue = <<"I", "R", "O", "N", " ">>
    /\ searchResults = <<1, 3>>

\* C12: a search with a text of length 0 or 1 leaves the result list empty
\* (whatever it held before), changes neither the viewport nor the active
\* marker nor the rendered markers, and raises no error.
C12_ShortQueryClears ==
    [][(ev'.op = "search" /\ Len(searchValue') <= 1)
        => /\ searchResults' = <<>>
           /\ ~ev'.threw
           /\ UNCHANGED <<scale, translateX, translateY, activeMarker,
                          rendered>>]_vars

\* One letter typed after a jump to a marker: the view is zoomed on the
\* active marker and the result list is empty.
C12_Witness ==
    /\ ev.op = "search"
    /\ Len(searchValue) = 1
    /\ searchResults = <<>>
    /\ activeMarker # 0
    /\ scale = TargetScale

\* The fetch or the parse failed: init has run and the marker set is empty.
LoadFailed == pc = "ready" /\ markersData = <<>>

\* The step is a pan, zoom, reset or swipe step whose outcome is the one its
\* handler computes from the viewport, the gesture state and the event
\* alone, whatever the marker set.
ViewportStep ==
    \/ /\ ev'.op = "down"
       /\ \E kind \in EventKinds, p \in MapPoints :
            LET r == handlePanStart(kind, p)
            IN  <<isDragging', lastX', lastY', grabbing', ev'.threw>>
                    = <<r.isDragging, r.lastX, r.lastY, r.grabbing, r.threw>>
       /\ UNCHANGED <<viewVars, swipeVars>>
    \/ /\ ev'.op = "swipedown"
       /\ isSwiping' /\ ~grabbing' /\ ~ev'.threw
       /\ UNCHANGED <<viewVars, isDragging, lastX, lastY, swipePercent>>
    \/ /\ ev'.op = "move"
       /\ \E kind \in EventKinds, p \in DocPoints :
            LET m == handlePanMove(kind, p)
                w == onSwipe(kind, p)
            IN  <<translateX', translateY', lastX', lastY', swipePercent',
                  ev'.threw>>
                    = <<m.tx, m.ty, m.lastX, m.lastY, w.percent,
                        m.threw \/ w.threw>>
       /\ UNCHANGED <<scale, isDragging, grabbing, isSwiping>>
    \/ /\ ev'.op = "up"
       /\ ~isDragging' /\ ~isSwiping' /\ ~grabbing' /\ ~ev'.threw
       /\ UNCHANGED <<viewVars, lastX, lastY, swipePercent>>
    \/ /\ ev'.op = "button"
       /\ \E factor \in {ButtonIn, ButtonOut} :
            LET z == ZoomStep(scale, translateX, translateY, wrapper, factor,
                              Rat(wrapper[1], 2), Rat(wrapper[2], 2))
            IN  <<scale', translateX', translateY'>> = <<z.scale, z.tx, z.ty>>
       /\ ~ev'.threw
       /\ UNCHANGED <<panVars, swipeVars>>
    \/ /\ ev'.op = "reset"
       /\ <<scale', translateX', translateY'>> = <<R(1), R(0), R(0)>>
       /\ ~ev'.threw
       /\ UNCHANGED <<panVars, swipeVars>>

C14_JumpFindsTarget ==
    [][ev'.op = "jump"
        => /\ ~ev'.threw
           /\ RenderedSet(rendered')
                = Matching(markersData[ev'.marker].categorie)
           /\ QueryByName(markersData, rendered',
                          markersData[ev'.marker].nom) # 0
           /\ ~tooltip'.hidden]_vars

\* A jump to a marker of another category than the one of the selected
\* filter button.
C14_Witness ==
    /\ ev.op = "jump"
    /\ ~ev.threw
    /\ HighlightedFilter # "all"
    /\ HighlightedFilter # markersData[ev.marker].categorie
    /\ \E i \in DOMAIN rendered : rendered[i].idx = ev.marker

\* C15: for any pointer position observed while swiping, the swipe percent
\* applied to the clip and the separator is within [0, 100]; it is exactly
\* 100 for a pointer at or beyond the wrapper's right edge and exactly 0 for
\* one at or before its left edge.
C15_SwipePercentClamped ==
    (ev.op = "move" /\ isSwiping)
        => /\ swipePercent # <<>>
           /\ RLeq(Zero, swipePercent[1]) /\ RLeq(swipePercent[1], R(100))
           /\ ev.at[1] >= wrapper[1] => swipePercent[1] = R(100)
           /\ ev.at[1] <= 0 => swipePercent[1] = Zero

\* C16: a wheel or button zoom whose clamped new scale equals the current
\* scale (zoom-in at 4.0, zoom-out at 1.0) leaves scale, translateX and
\* translateY unchanged and raises nothing.
C16_ZoomAtLimitNoOp ==
    [][(ev'.op \in {"wheel", "button"} /\ scale' = scale)
        => /\ scale \in {MinScale, MaxScale}
           /\ UNCHANGED <<translateX, translateY>>
           /\ ~ev'.threw]_vars

\* A wheel event at scale 1.0 before any zoom has changed the view.
C16_Witness ==
    /\ ev.op = "wheel"
    /\ scale = MinScale
    /\ budget.zoom = DeepZooms

\* C17: for any scale in [1.0, 4.0], any translation and fixed wrapper
\* dimensions, a second call of clampTranslations gives the viewport the
\* first call left.
C17_ClampIdempotent ==
    ev.op = "clamp"
        => clampTranslations(scale, translateX, translateY, wrapper)
            = <<translateX, translateY>>

\* A call that moved the map back to the far edge on both axes.
C17_Witness ==
    /\ ev.op = "clamp"
    /\ scale = R(2)
    /\ translateX = R(-wrapper[1])
    /\ translateY = R(-wrapper[2])

\* The pointer position the event before this one was at, within a drag.
PreviousPointer == IF ev.op = "down" THEN ev.origin ELSE ev.at

\* C18: while dragging, every move that follows the pointer-down or another
\* move of the drag adds to the translation the difference between its
\* position and the position of the event before it, so that after a down
\* at p0 and moves p1..pn the translation is the one at the down plus
\* (pn - p0); and it leaves the tooltip hidden.
C18_PanFollowsPointer ==
    [][(ev'.op = "move" /\ isDragging /\ ev.op \in {"down", "move"})
        => /\ translateX'
                = RAdd(translateX, R(ev'.at[1] - PreviousPointer[1]))
           /\ translateY'
                = RAdd(translateY, R(ev'.at[2] - PreviousPointer[2]))
           /\ tooltip'.hidden]_vars

\* C19: after jumpToMarker to a marker with top and left in [0, 100] the
\* scale is 2.0 and the translation is within [-(width*2 - width), 0] and
\* [-(height*2 - height), 0]: the scaled content covers the wrapper.
C19_JumpCoversContainer ==
    (ev.op = "jump" /\ ~ev.threw)
        => /\ markersData[ev.marker].left \in 0..100
           /\ markersData[ev.marker].top \in 0..100
           /\ scale = TargetScale
           /\ InBounds

\* C20: in every reachable state, if there is an active marker then its
\* record is among the rendered markers and it is the only rendered marker
\* that carries the 'active' class.
C20_ActiveMarkerVisible ==
    activeMarker # 0
        => /\ activeMarker \in RenderedSet(rendered)
           /\ \A i \in DOMAIN rendered :
                 rendered[i].active <=> rendered[i].idx = activeMarker

\* After a jump and a button zoom the active marker is rendered next to
\* another marker of its category.
C20_Witness ==
    /\ activeMarker # 0
    /\ ev.op = "button"
    /\ \E i \in DOMAIN rendered : rendered[i].idx = activeMarker
    /\ \E i \in DOMAIN rendered : rendered[i].idx # activeMarker

\* C21: in every state after init has completed, right after init and right
\* after a jump included, the rendered markers are exactly the loaded
\* records whose category matches the filter of the button carrying
\* 'active-filter' (all records for 'all').
C21_RenderedAgreesWithFilter ==
    pc = "ready" => RenderedSet(rendered) = Matching(HighlightedFilter)
====
